---- MODULE Spec2Model ----
(* Payroll Analytics API: the employees table, the per-request store      *)
(* session, and the three request handlers that touch the table           *)
(* (POST /api/etl/upload, GET /api/kpis, GET /api/employees).             *)
(*                                                                        *)
(* Every request is one cooperative task.  A task only yields at its      *)
(* awaits, so one action below is the code between two awaits.            *)
(* Money is counted in thousandths (1.004 is 1004) so that rounding to    *)
(* two decimals is visible.                                               *)
EXTENDS Integers, Sequences, FiniteSets, TLC

\* ---------------------------------------------------------------- bounds
NumRequests == 2
MaxRows == 2

Requests == 1..NumRequests

\* ------------------------------------------------------------ input data
NULL == "<null>"

\* file names, as character sequences (str.endswith looks at the tail)
Filenames ==
    { <<"d", ".", "c", "s", "v">>,
      <<"d", ".", "x", "l", "s", "x">>,
      <<"d", ".", "t", "x", "t">> }

\* what the uploaded bytes really are
Formats == {"csv", "xlsx"}

\* header lines as they stand in the file (one of them padded)
RawHeaders ==
    { {"EmployeeID", "Name", "Department", "MonthlyIncome"},
      {" MonthlyIncome "},
      {"EmployeeID", "Name", "Department"} }

CellsOf(h) ==
    CASE h = "EmployeeID" -> {"E1", "E2"}
      [] h = "Name" -> {"Alice"}
      [] h = "Department" -> {"Eng"}
      [] OTHER -> {"1.004", "abc"}

AllCells == {"E1", "E2", "Alice", "Eng", "1.004", "abc"}

RowsOver(H) == { f \in [H -> AllCells] : \A h \in H : f[h] \in CellsOf(h) }

SeqsUpTo(S, n) == UNION { [1..k -> S] : k \in 0..n }

Tables ==
    UNION { { [columns |-> H, rows |-> rs] : rs \in SeqsUpTo(RowsOver(H), MaxRows) }
            : H \in RawHeaders }

Contents == [format : Formats, table : Tables]

NoTable == [columns |-> {}, rows |-> <<>>]


\* ------------------------------------------------- models.py: Employee
\* uuid.uuid4() is a fresh token; the token made for row i of request r
uuid4(r, i) == <<r, i>>

\* row.get(key, default) of a pandas row
Get(row, key, default) == IF key \in DOMAIN row THEN row[key] ELSE default

\* a float() that never raises
IsNumericAlways(x) == TRUE

\* float(x) raises ValueError unless x reads as a number
IsNumeric(x) == x \in {"0", "1.004"}
Float(x) == CASE x = "1.004" -> 1004 [] OTHER -> 0

\* Employee(id=..., employee_id=..., name=..., department=..., monthly_income=...)
\* the columns the handler does not set keep their defaults
Employee(r, i, row) ==
    [ id |-> uuid4(r, i),
      employee_id |-> Get(row, "EmployeeID", NULL),
      name |-> Get(row, "Name", NULL),
      department |-> Get(row, "Department", NULL),
      monthly_income |-> Float(Get(row, "MonthlyIncome", "0")),
      age |-> NULL,
      attrition |-> FALSE ]

\* the table without unique=True on employee_id
CanInsertNoUnique(e, T) == \A x \in T : x.id # e.id

\* primary_key=True on id, unique=True on employee_id (NULLs never collide)
CanInsert(e, T) ==
    /\ \A x \in T : x.id # e.id
    /\ e.employee_id = NULL \/ \A x \in T : x.employee_id # e.employee_id

\* the INSERTs of one flush, in order, against the rows the connection sees
RECURSIVE InsertAll(_, _, _)
InsertAll(rows, i, T) ==
    IF i > Len(rows) THEN [ok |-> TRUE, table |-> T]
    ELSE IF ~CanInsert(rows[i], T) THEN [ok |-> FALSE, table |-> T]
    ELSE InsertAll(rows, i + 1, T \cup {rows[i]})

\* ------------------------------------------------ server.py: upload path
EndsWith(s, suffix) ==
    /\ Len(s) >= Len(suffix)
    /\ SubSeq(s, Len(s) - Len(suffix) + 1, Len(s)) = suffix

DotCsv == <<".", "c", "s", "v">>
DotXlsx == <<".", "x", "l", "s", "x">>

\* a handler that hands any other suffix to the csv parser
ParseOkNoElse(name, contents) ==
    IF EndsWith(name, DotXlsx) THEN contents.format = "xlsx"
    ELSE contents.format = "csv"

\* the try block: which parser runs, and whether it accepts the bytes
\* (the HTTPException of the else branch is caught by the except clause and
\*  raised again as a 400)
ParseOk(name, contents) ==
    IF EndsWith(name, DotCsv) THEN contents.format = "csv"
    ELSE IF EndsWith(name, DotXlsx) THEN contents.format = "xlsx"
    ELSE FALSE

\* str.strip on one header
Strip(h) == IF h = " MonthlyIncome " THEN "MonthlyIncome" ELSE h

\* df.columns = df.columns.str.strip()
StripColumns(t) ==
    LET cols == { Strip(h) : h \in t.columns }
    IN [ columns |-> cols,
         rows |-> [ k \in 1..Len(t.rows) |->
                      [ c \in cols |-> t.rows[k][CHOOSE h \in t.columns : Strip(h) = c] ] ] ]

\* index of the first row whose MonthlyIncome float() rejects, 0 if none
FirstBad(rows) ==
    LET bad == { k \in 1..Len(rows) : ~IsNumeric(Get(rows[k], "MonthlyIncome", "0")) }
    IN IF bad = {} THEN 0 ELSE CHOOSE k \in bad : \A j \in bad : k <= j

\* the records db.add() has received when the loop stops after n rows
Added(r, rows, n) == [ k \in 1..n |-> Employee(r, k, rows[k]) ]

\* ------------------------------------------------------ server.py: reads
RECURSIVE SumIncome(_)
SumIncome(S) ==
    IF S = {} THEN 0
    ELSE LET e == CHOOSE x \in S : TRUE
         IN e.monthly_income + SumIncome(S \ {e})

\* .scalar() of select(func.count(Employee.id)) / select(func.sum(...)):
\* a one-element set, or the empty set for SQL NULL
ScalarCount(S) == { Cardinality(S) }
ScalarSum(S) == IF S = {} THEN {} ELSE { SumIncome(S) }

\* "<scalar> or 0"
OrZero(sc) == IF sc = {} THEN 0 ELSE CHOOSE v \in sc : TRUE

\* cutting after two decimals instead of rounding
Round2Truncates(num, den) == { ((num \div den) \div 10) * 10 }

\* round(num / den, 2) on thousandths: the multiples of 10 nearest to
\* num / den; a decimal tie falls to either side, as the binary float decides
Round2(num, den) ==
    LET lo == ((num \div den) \div 10) * 10
        twice == 2 * (num - lo * den)
    IN IF twice < 10 * den THEN {lo}
       ELSE IF twice > 10 * den THEN {lo + 10}
       ELSE {lo, lo + 10}

\* pydantic: a str field rejects None
IsStr(v) == v # NULL

Validates(e) == IsStr(e.employee_id) /\ IsStr(e.name) /\ IsStr(e.department)

\* EmployeeResponse(id=e.id, employee_id=e.employee_id, ...)
EmployeeResponse(e) ==
    [ id |-> e.id, employee_id |-> e.employee_id, name |-> e.name,
      department |-> e.department, monthly_income |-> e.monthly_income ]

\* ---------------------------------------------------------------- state
VARIABLES
    store,               \* committed rows of the employees table
    history,             \* every value store has had
    writer,              \* request whose connection holds the write lock, 0 if none
    kind,                \* per request: which endpoint
    pc,                  \* per request: the await it is parked at
    session,             \* per request: "none", "open", "closed"
    filename,            \* per request: file.filename
    df,                  \* per request: the parsed table
    staged,              \* per request: objects added to the session, not flushed
    txn,                 \* per request: rows inserted in its open transaction
    total_employees,     \* per request: local of get_kpis
    employees,           \* per request: local of get_employees
    resp                 \* per request: what the caller receives

vars == << store, history, writer, kind, pc, session, filename, df, staged, txn,
           total_employees, employees, resp >>

NoKpi == [total_employees |-> 0, total_payroll_cost |-> 0, avg_salary |-> 0]
NoResp == [status |-> 0, rows_inserted |-> -1, kpi |-> NoKpi, list |-> {}]

Init ==
    /\ store = {}
    /\ history = { {} }
    /\ writer = 0
    /\ kind = [r \in Requests |-> "none"]
    /\ pc = [r \in Requests |-> "idle"]
    /\ session = [r \in Requests |-> "none"]
    /\ filename = [r \in Requests |-> <<>>]
    /\ df = [r \in Requests |-> NoTable]
    /\ staged = [r \in Requests |-> <<>>]
    /\ txn = [r \in Requests |-> {}]
    /\ total_employees = [r \in Requests |-> 0]
    /\ employees = [r \in Requests |-> {}]
    /\ resp = [r \in Requests |-> NoResp]


\* --------------------------------------------------------------- helpers
Set(r, f, v) == [f EXCEPT ![r] = v]

Reply(r, code) == Set(r, resp, [resp[r] EXCEPT !.status = code])

\* a failed flush whose earlier INSERTs stay
RollbackKeeps(committed, dirty) == dirty

\* the table as it stands once a failed flush has been rolled back
Rollback(committed, dirty) == committed

\* a get_db that closes the session only after a normal return
SessionLeakOnError(code) == IF code = 200 THEN "closed" ELSE "open"

\* database.py get_db: "async with AsyncSessionLocal() as session" closes the
\* session when the request is over, whatever status the handler ended with
SessionAfterExit(code) == "closed"

\* requests are interchangeable, so slot r is taken only after slot r - 1
CanStart(r) ==
    /\ pc[r] = "idle"
    /\ IF r = 1 THEN TRUE ELSE pc[r - 1] # "idle"

\* ------------------------------------------------ POST /api/etl/upload
\* Depends(get_db) opens the session; the handler parks at "await file.read()"
StartUpload(r, name) ==
    /\ CanStart(r)
    /\ kind' = Set(r, kind, "upload")
    /\ session' = Set(r, session, "open")
    /\ filename' = Set(r, filename, name)
    /\ pc' = Set(r, pc, "read")
    /\ UNCHANGED << store, history, writer, df, staged, txn, total_employees,
                    employees, resp >>

\* the bytes arrive; wrong suffix or parser error: HTTPException(400)
UploadReject(r, contents) ==
    /\ pc[r] = "read"
    /\ ~ParseOk(filename[r], contents)
    /\ resp' = Reply(r, 400)
    /\ pc' = Set(r, pc, "exit")
    /\ UNCHANGED << store, history, writer, kind, session, filename, df, staged,
                    txn, total_employees, employees >>

\* the bytes arrive and parse; float() raises on some row: the loop stops,
\* the rows before it are already in the session, the caller gets a 500
UploadConvertFail(r, contents) ==
    LET t == StripColumns(contents.table)
    IN /\ pc[r] = "read"
       /\ ParseOk(filename[r], contents)
       /\ FirstBad(t.rows) # 0
       /\ df' = Set(r, df, t)
       /\ staged' = Set(r, staged, Added(r, t.rows, FirstBad(t.rows) - 1))
       /\ resp' = Reply(r, 500)
       /\ pc' = Set(r, pc, "exit")
       /\ UNCHANGED << store, history, writer, kind, session, filename, txn,
                       total_employees, employees >>

\* the bytes arrive and parse; every row is added; park at "await db.commit()"
UploadStage(r, contents) ==
    LET t == StripColumns(contents.table)
    IN /\ pc[r] = "read"
       /\ ParseOk(filename[r], contents)
       /\ FirstBad(t.rows) = 0
       /\ df' = Set(r, df, t)
       /\ staged' = Set(r, staged, Added(r, t.rows, Len(t.rows)))
       /\ pc' = Set(r, pc, "flush")
       /\ UNCHANGED << store, history, writer, kind, session, filename, txn,
                       total_employees, employees, resp >>

\* db.commit() with nothing added: no statement is sent; return the dict
CommitNothing(r) ==
    /\ pc[r] = "flush"
    /\ staged[r] = <<>>
    /\ resp' = Set(r, resp, [resp[r] EXCEPT !.status = 200,
                                             !.rows_inserted = Len(df[r].rows)])
    /\ pc' = Set(r, pc, "exit")
    /\ UNCHANGED << store, history, writer, kind, session, filename, df, staged,
                    txn, total_employees, employees >>

\* db.commit(), first half: the flush takes the write lock and sends the
\* INSERTs; they all pass the constraints
FlushOk(r) ==
    LET res == InsertAll(staged[r], 1, store)
    IN /\ pc[r] = "flush"
       /\ staged[r] # <<>>
       /\ writer = 0
       /\ res.ok
       /\ writer' = r
       /\ txn' = Set(r, txn, res.table \ store)
       /\ staged' = Set(r, staged, <<>>)
       /\ pc' = Set(r, pc, "commit")
       /\ UNCHANGED << store, history, kind, session, filename, df,
                       total_employees, employees, resp >>

\* db.commit(), first half: an INSERT breaks a constraint (IntegrityError);
\* the transaction is rolled back and the caller gets a 500
FlushFail(r) ==
    LET res == InsertAll(staged[r], 1, store)
    IN /\ pc[r] = "flush"
       /\ staged[r] # <<>>
       /\ writer = 0
       /\ ~res.ok
       /\ store' = Rollback(store, res.table)
       /\ history' = history \cup {store'}
       /\ staged' = Set(r, staged, <<>>)
       /\ resp' = Reply(r, 500)
       /\ pc' = Set(r, pc, "exit")
       /\ UNCHANGED << writer, kind, session, filename, df, txn,
                       total_employees, employees >>

\* db.commit(), second half: COMMIT; then return the dict
Commit(r) ==
    /\ pc[r] = "commit"
    /\ store' = store \cup txn[r]
    /\ history' = history \cup {store'}
    /\ writer' = 0
    /\ txn' = Set(r, txn, {})
    /\ resp' = Set(r, resp, [resp[r] EXCEPT !.status = 200,
                                             !.rows_inserted = Len(df[r].rows)])
    /\ pc' = Set(r, pc, "exit")
    /\ UNCHANGED << kind, session, filename, df, staged, total_employees,
                    employees >>

\* ------------------------------------------------------- GET /api/kpis
StartKpis(r) ==
    /\ CanStart(r)
    /\ kind' = Set(r, kind, "kpis")
    /\ session' = Set(r, session, "open")
    /\ pc' = Set(r, pc, "count")
    /\ UNCHANGED << store, history, writer, filename, df, staged, txn,
                    total_employees, employees, resp >>

\* first query
KpiCount(r) ==
    /\ pc[r] = "count"
    /\ total_employees' = Set(r, total_employees, OrZero(ScalarCount(store)))
    /\ pc' = Set(r, pc, "sum")
    /\ UNCHANGED << store, history, writer, kind, session, filename, df, staged,
                    txn, employees, resp >>

\* second query, then the average and the rounded response
KpiSum(r) ==
    LET total_payroll_cost == OrZero(ScalarSum(store))
        avgs == IF total_employees[r] # 0
                THEN Round2(total_payroll_cost, total_employees[r])
                ELSE Round2(0, 1)
    IN /\ pc[r] = "sum"
       /\ \E cost \in Round2(total_payroll_cost, 1), avg \in avgs :
            resp' = Set(r, resp,
                        [resp[r] EXCEPT !.status = 200,
                                        !.kpi = [total_employees |-> total_employees[r],
                                                 total_payroll_cost |-> cost,
                                                 avg_salary |-> avg]])
       /\ pc' = Set(r, pc, "exit")
       /\ UNCHANGED << store, history, writer, kind, session, filename, df, staged,
                       txn, total_employees, employees >>

\* -------------------------------------------------- GET /api/employees
StartEmployees(r) ==
    /\ CanStart(r)
    /\ kind' = Set(r, kind, "employees")
    /\ session' = Set(r, session, "open")
    /\ pc' = Set(r, pc, "select")
    /\ UNCHANGED << store, history, writer, filename, df, staged, txn,
                    total_employees, employees, resp >>

\* the query returns; every row passes the response model
EmployeesOk(r) ==
    /\ pc[r] = "select"
    /\ \A e \in store : Validates(e)
    /\ employees' = Set(r, employees, store)
    /\ resp' = Set(r, resp, [resp[r] EXCEPT !.status = 200,
                                             !.list = { EmployeeResponse(e) : e \in store }])
    /\ pc' = Set(r, pc, "exit")
    /\ UNCHANGED << store, history, writer, kind, session, filename, df, staged,
                    txn, total_employees >>

\* the query returns; a row has None where the response model wants a str
EmployeesInvalid(r) ==
    /\ pc[r] = "select"
    /\ \E e \in store : ~Validates(e)
    /\ employees' = Set(r, employees, store)
    /\ resp' = Reply(r, 500)
    /\ pc' = Set(r, pc, "exit")
    /\ UNCHANGED << store, history, writer, kind, session, filename, df, staged,
                    txn, total_employees >>

\* ------------------------------------------------------ end of a request
\* get_db resumes after the handler returned or raised; the session closes
\* and drops whatever it still holds; the handler's locals are gone
Release(r) ==
    /\ pc[r] = "exit"
    /\ session' = Set(r, session, SessionAfterExit(resp[r].status))
    /\ staged' = Set(r, staged, <<>>)
    /\ filename' = Set(r, filename, <<>>)
    /\ df' = Set(r, df, NoTable)
    /\ total_employees' = Set(r, total_employees, 0)
    /\ employees' = Set(r, employees, {})
    /\ pc' = Set(r, pc, "ended")
    /\ UNCHANGED << store, history, writer, kind, txn, resp >>

Step(r) ==
    \/ \E name \in Filenames : StartUpload(r, name)
    \/ \E contents \in Contents : UploadReject(r, contents)
    \/ \E contents \in Contents : UploadConvertFail(r, contents)
    \/ \E contents \in Contents : UploadStage(r, contents)
    \/ CommitNothing(r)
    \/ FlushOk(r)
    \/ FlushFail(r)
    \/ Commit(r)
    \/ StartKpis(r)
    \/ KpiCount(r)
    \/ KpiSum(r)
    \/ StartEmployees(r)
    \/ EmployeesOk(r)
    \/ EmployeesInvalid(r)
    \/ Release(r)

Next == \E r \in Requests : Step(r)

Spec == Init /\ [][Next]_vars

\* the event loop does not stop while some task is ready to run
FairSpec == Spec /\ WF_vars(Next)

\* ================================================================ claims
\* the committed records that request r built
Mine(r) == { e \in store : e.id[1] = r }

Abs(x) == IF x < 0 THEN -x ELSE x

\* request r is an upload whose file was accepted by the parser
Parsed(r) == kind[r] = "upload" /\ df[r].columns # {}

\* some row of t holds a MonthlyIncome that is not a number
HasNonNumeric(t) ==
    \E k \in 1..Len(t.rows) :
        "MonthlyIncome" \in DOMAIN t.rows[k] /\ t.rows[k]["MonthlyIncome"] = "abc"

EmployeeIdsOf(t) ==
    { t.rows[k]["EmployeeID"] : k \in { j \in 1..Len(t.rows) : "EmployeeID" \in DOMAIN t.rows[j] } }

DataTxt == <<"d", ".", "t", "x", "t">>

\* C1: every upload that parses (and whose MonthlyIncome cells are all
\* numbers) answers success with rows_inserted = N, and N of its records are
\* in the store when it answers
C1_UploadInsertsEveryRow ==
    \A r \in Requests :
        (Parsed(r) /\ ~HasNonNumeric(df[r]) /\ pc[r] = "exit") =>
            /\ resp[r].status = 200
            /\ resp[r].rows_inserted = Len(df[r].rows)
            /\ Cardinality(Mine(r)) = Len(df[r].rows)

\* C2: at every moment the store holds either none of an upload's records or
\* all of them; none before its commit, none if it ended in an error
C2_AllOrNothing ==
    \A r \in Requests :
        /\ pc[r] \in {"idle", "read", "flush", "commit"} => Mine(r) = {}
        /\ resp[r].status \in {400, 500} => Mine(r) = {}
        /\ (kind[r] = "upload" /\ resp[r].status = 200) =>
               Cardinality(Mine(r)) = resp[r].rows_inserted

\* C2 witness: a flush that had inserted a row before the colliding one
\* failed, and the request has answered
C2_Witness ==
    \E r \in Requests :
        /\ Parsed(r) /\ pc[r] = "exit" /\ resp[r].status = 500
        /\ ~HasNonNumeric(df[r])
        /\ Len(df[r].rows) = 2
        /\ \A e \in store : e.employee_id \notin EmployeeIdsOf(df[r])

\* C3: two uploads in flight together, of M and N rows, with no EmployeeID in
\* common, have added M + N records once both have answered
C3_ConcurrentUploadsAddUp ==
    \A r1, r2 \in Requests :
        ( /\ r1 # r2
          /\ Parsed(r1) /\ Parsed(r2)
          /\ ~HasNonNumeric(df[r1]) /\ ~HasNonNumeric(df[r2])
          /\ EmployeeIdsOf(df[r1]) \cap EmployeeIdsOf(df[r2]) = {}
          /\ pc[r1] = "exit" /\ pc[r2] = "exit" ) =>
            Cardinality(store) - Cardinality(store \ (Mine(r1) \cup Mine(r2)))
                = Len(df[r1].rows) + Len(df[r2].rows)

\* C4: an upload named data.txt stages nothing, inserts nothing, and answers 400
C4_BadSuffixRejected ==
    \A r \in Requests :
        filename[r] = DataTxt =>
            /\ pc[r] \in {"read", "exit"}
            /\ staged[r] = <<>> /\ txn[r] = {} /\ Mine(r) = {}
            /\ pc[r] = "exit" => resp[r].status = 400

C4_Witness ==
    \E r \in Requests : filename[r] = DataTxt /\ pc[r] = "exit" /\ resp[r].status = 400

\* C5 as written: total_payroll_cost is the sum, and avg_salary times the
\* count is the sum (0 when the count is 0)
C5_KpisExact ==
    [][ \A r \in Requests :
          (pc[r] = "sum" /\ pc'[r] = "exit") =>
              /\ resp'[r].kpi.total_payroll_cost = SumIncome(store)
              /\ IF total_employees[r] > 0
                 THEN resp'[r].kpi.avg_salary * total_employees[r] = SumIncome(store)
                 ELSE resp'[r].kpi.avg_salary = 0 ]_vars

\* C5 amended: total_employees is the number of records at the count query;
\* total_payroll_cost is the sum at the sum query rounded to two decimals;
\* avg_salary is that sum over that count rounded to two decimals, and 0 when
\* the count is 0
C5_KpisRounded ==
    [][ \A r \in Requests :
          /\ (pc[r] = "count" /\ pc'[r] = "sum") =>
                 total_employees'[r] = Cardinality(store)
          /\ (pc[r] = "sum" /\ pc'[r] = "exit") =>
                 LET k == resp'[r].kpi
                     n == total_employees[r]
                     sum == SumIncome(store)
                 IN /\ resp'[r].status = 200
                    /\ k.total_employees = n
                    /\ k.total_payroll_cost % 10 = 0
                    /\ 2 * Abs(k.total_payroll_cost - sum) <= 10
                    /\ k.avg_salary % 10 = 0
                    /\ IF n > 0 THEN 2 * Abs(k.avg_salary * n - sum) <= 10 * n
                       ELSE k.avg_salary = 0 ]_vars

\* C5 witness: a KPI answer over two or more records whose sum had to be rounded
C5_Witness ==
    \E r \in Requests :
        /\ kind[r] = "kpis" /\ pc[r] = "exit"
        /\ resp[r].kpi.total_employees >= 2
        /\ SumIncome(store) % 10 # 0
        /\ resp[r].kpi.total_payroll_cost > 0

\* C6: the count and the cost of one KPI answer are the count and the
\* (rounded) sum of one and the same value the store has had
C6_KpisOneSnapshot ==
    \A r \in Requests :
        (kind[r] = "kpis" /\ resp[r].status = 200) =>
            \E S \in history :
                /\ resp[r].kpi.total_employees = Cardinality(S)
                /\ 2 * Abs(resp[r].kpi.total_payroll_cost - SumIncome(S)) <= 10

\* C7: get_employees answers 200 with exactly one entry per record it read
C7_EmployeesListed ==
    \A r \in Requests :
        (kind[r] = "employees" /\ pc[r] = "exit") =>
            /\ resp[r].status = 200
            /\ Cardinality(resp[r].list) = Cardinality(employees[r])
            /\ \A e \in employees[r] :
                 \E x \in resp[r].list :
                     /\ x.id = e.id /\ x.employee_id = e.employee_id
                     /\ x.name = e.name /\ x.department = e.department
                     /\ x.monthly_income = e.monthly_income

\* C8: a request that holds a session ends, and an ended request holds none
C8_SessionReleased ==
    \A r \in Requests :
        /\ [](pc[r] = "ended" => session[r] = "closed")
        /\ (session[r] = "open") ~> (pc[r] = "ended" /\ session[r] = "closed")

\* C8 witness: requests that ended with a 400 and with a 500, sessions closed
C8_Witness ==
    \E r1, r2 \in Requests :
        /\ pc[r1] = "ended" /\ resp[r1].status = 400 /\ session[r1] = "closed"
        /\ pc[r2] = "ended" /\ resp[r2].status = 500 /\ session[r2] = "closed"

\* C9: without a MonthlyIncome column every record built has income 0; with a
\* non-numeric MonthlyIncome the request answers 500 and none of its rows is
\* flushed or committed
C9_IncomeDefaultAndReject ==
    \A r \in Requests :
        /\ (Parsed(r) /\ "MonthlyIncome" \notin df[r].columns) =>
               /\ \A k \in 1..Len(staged[r]) : staged[r][k].monthly_income = 0
               /\ \A e \in txn[r] \cup Mine(r) : e.monthly_income = 0
        /\ (Parsed(r) /\ HasNonNumeric(df[r])) =>
               /\ pc[r] = "exit" /\ resp[r].status = 500
               /\ txn[r] = {} /\ Mine(r) = {}
        /\ (kind[r] = "upload" /\ resp[r].status = 500) =>
               txn[r] = {} /\ Mine(r) = {}

\* C9 witness: one upload without the column has committed its records; in
\* another the second row was the bad one, the first is still in the session,
\* and the caller has its 500
C9_Witness ==
    \E r1, r2 \in Requests :
        /\ Parsed(r1) /\ "MonthlyIncome" \notin df[r1].columns
        /\ pc[r1] = "exit" /\ Cardinality(Mine(r1)) = 2
        /\ Parsed(r2) /\ HasNonNumeric(df[r2])
        /\ pc[r2] = "exit" /\ resp[r2].status = 500
        /\ Len(staged[r2]) = 1

\* C10: no two stored records share an id or a non-null employee_id
C10_UniqueIds ==
    \A x, y \in store :
        x # y => /\ x.id # y.id
                 /\ x.employee_id # NULL => x.employee_id # y.employee_id

\* C10 witness: an upload repeating a stored EmployeeID has been refused
C10_Witness ==
    \E r \in Requests :
        /\ Parsed(r) /\ ~HasNonNumeric(df[r])
        /\ pc[r] = "exit" /\ resp[r].status = 500
        /\ \E e \in store : e.employee_id \in EmployeeIdsOf(df[r])

====
